---- MODULE Spec2Model ----
(***************************************************************************)
(* Model of SimpleCom.c: a hand-written COM server in C.                   *)
(*                                                                         *)
(* State: the C heap holding SimpleCalculator instances (allocation set,   *)
(* the count and lpVtbl fields), the static SimpleClassFactory, and the    *)
(* client threads that call into the DLL.  Every exported function or      *)
(* vtable method is one action, except Release, whose two instructions     *)
(* (InterlockedDecrement, then the conditional free) are separate steps so *)
(* that other threads can run between them.                                *)
(***************************************************************************)
EXTENDS Integers, FiniteSets, Sequences, TLC

\* ---------------------------------------------------------------- bounds
MaxObjs == 1        \* heap slots malloc can hand out
NumThreads == 2     \* client threads, each holding at most one reference per instance

\* ------------------------------------------------------------ identifiers
CLSID_SimpleCalculator == "11111111-2222-3333-4444-555555555555"
IID_ICalculator == "E1234567-ABCD-1234-EF12-0123456789AB"
IID_IUnknown == "00000000-0000-0000-C000-000000000046"
IID_IClassFactory == "00000001-0000-0000-C000-000000000046"
\* identifiers that name nothing this DLL implements
IID_Other == "0000010C-0000-0000-C000-000000000046"
CLSID_Other == "99999999-2222-3333-4444-555555555555"

IIDs == {IID_IUnknown, IID_ICalculator, IID_IClassFactory, IID_Other}
CLSIDs == {CLSID_SimpleCalculator, CLSID_Other}

IsEqualGUID(a, b) == a = b

\* ------------------------------------------------------------ status codes
S_OK == "S_OK"
S_FALSE == "S_FALSE"
E_NOINTERFACE == "E_NOINTERFACE"
E_OUTOFMEMORY == "E_OUTOFMEMORY"
CLASS_E_NOAGGREGATION == "CLASS_E_NOAGGREGATION"
CLASS_E_CLASSNOTAVAILABLE == "CLASS_E_CLASSNOTAVAILABLE"
NoHr == "-"

\* ---------------------------------------------------------------- pointers
NULL == 0
Addr == 1..MaxObjs                     \* heap addresses
SimpleClassFactoryAddr == MaxObjs + 1  \* &SimpleClassFactory (static storage)
Stale == MaxObjs + 2                   \* a non-null pointer to no live object
\* What the caller's *ppv holds before a call.  A slot that already holds NULL
\* cannot tell a callee that writes NULL from one that writes nothing, so the
\* callers modelled pass a slot with a stale non-null content.
PpvIn == {Stale}
Outer == {NULL, Stale}
Threads == 1..NumThreads

VARIABLES
    allocated,           \* set of heap addresses currently malloc'ed
    count,               \* SimpleCalculator.count, per address
    lpVtbl,              \* SimpleCalculator.lpVtbl, per address
    SimpleClassFactory,  \* the static factory object
    refs,                \* refs[t][a]: references to a that thread t holds (0 or 1)
    pc,                  \* per thread: idle, or inside Release after the decrement
    heapFault,           \* TRUE once free() was called on unallocated memory
    ev                   \* the call step just taken, with its arguments and results

vars == <<allocated, count, lpVtbl, SimpleClassFactory, refs, pc, heapFault, ev>>

Idle == [at |-> "idle", this |-> NULL, count |-> 0]

NoEv == [op |-> "-", this |-> NULL, riid |-> "-", pUnkOuter |-> NULL,
         rclsid |-> "-", obj |-> NULL, hr |-> NoHr, ppv |-> NULL, ret |-> 0]

\* ------------------------------------------------------ Calculator object
InterlockedIncrement(cnt, this) == [cnt EXCEPT ![this] = @ + 1]

\* mutant: the decrement is lost
InterlockedDecrement_Lost(cnt, this) == cnt

InterlockedDecrement(cnt, this) == [cnt EXCEPT ![this] = @ - 1]

\* AddRef: returns the incremented count
AddRef(cnt, this) ==
    LET c == InterlockedIncrement(cnt, this)
    IN  [count |-> c, ret |-> c[this]]

\* mutant: a supported query forgets to take a reference
QueryInterface_NoAddRef(cnt, this, riid, ppv) ==
    IF IsEqualGUID(riid, IID_IUnknown) \/ IsEqualGUID(riid, IID_ICalculator)
    THEN [count |-> cnt, ppv |-> this, hr |-> S_OK]
    ELSE [count |-> cnt, ppv |-> NULL, hr |-> E_NOINTERFACE]

\* mutant: an unsupported query leaves the caller's slot as it was
QueryInterface_PpvUntouched(cnt, this, riid, ppv) ==
    IF IsEqualGUID(riid, IID_IUnknown) \/ IsEqualGUID(riid, IID_ICalculator)
    THEN [count |-> AddRef(cnt, this).count, ppv |-> this, hr |-> S_OK]
    ELSE [count |-> cnt, ppv |-> ppv, hr |-> E_NOINTERFACE]

\* QueryInterface: ppv is the caller's slot content before the call
QueryInterface(cnt, this, riid, ppv) ==
    IF IsEqualGUID(riid, IID_IUnknown) \/ IsEqualGUID(riid, IID_ICalculator)
    THEN [count |-> AddRef(cnt, this).count, ppv |-> this, hr |-> S_OK]
    ELSE [count |-> cnt, ppv |-> NULL, hr |-> E_NOINTERFACE]

\* mutant: frees while one reference is still out
ReleaseFrees_AtOne(c) == c <= 1

\* the test of line 43: does this Release free the instance?
ReleaseFrees(c) == c = 0

\* free(p): releasing memory that is not allocated is a heap fault
free(alloc, fault, p) ==
    [allocated |-> alloc \ {p}, heapFault |-> fault \/ p \notin alloc]

\* Release run to completion by one thread
Release(alloc, cnt, fault, this) ==
    LET c == InterlockedDecrement(cnt, this)
        f == IF ReleaseFrees(c[this]) THEN free(alloc, fault, this)
             ELSE [allocated |-> alloc, heapFault |-> fault]
    IN  [count |-> c, allocated |-> f.allocated, heapFault |-> f.heapFault,
         ret |-> c[this]]

\* ------------------------------------------------------------ class factory
ClassFactoryVtbl == "ClassFactoryVtbl"
CalculatorVtbl == "CalculatorVtbl"

Factory_QueryInterface(this, riid, ppv) ==
    IF IsEqualGUID(riid, IID_IUnknown) \/ IsEqualGUID(riid, IID_IClassFactory)
    THEN [ppv |-> this, hr |-> S_OK]
    ELSE [ppv |-> NULL, hr |-> E_NOINTERFACE]

Factory_AddRef == 2

\* mutant: the factory counts down to zero like an ordinary object
Factory_Release_Zero == Factory_AddRef - 2

Factory_Release == 1

\* malloc: any free slot, or NULL (it may fail at any time, and must when full)
malloc(alloc) == (Addr \ alloc) \cup {NULL}

\* mutant: the new instance starts with count 0
Factory_CreateInstance_CountZero(alloc, cnt, vt, fault, pUnkOuter, riid, ppv, obj) ==
    IF pUnkOuter # NULL
    THEN [allocated |-> alloc, count |-> cnt, lpVtbl |-> vt, heapFault |-> fault,
          obj |-> NULL, ppv |-> ppv, hr |-> CLASS_E_NOAGGREGATION]
    ELSE IF obj = NULL
    THEN [allocated |-> alloc, count |-> cnt, lpVtbl |-> vt, heapFault |-> fault,
          obj |-> NULL, ppv |-> ppv, hr |-> E_OUTOFMEMORY]
    ELSE LET vt1 == [vt EXCEPT ![obj] = CalculatorVtbl]
             cnt1 == [cnt EXCEPT ![obj] = 0]
             q == QueryInterface(cnt1, obj, riid, ppv)
             r == Release(alloc \cup {obj}, q.count, fault, obj)
         IN  [allocated |-> r.allocated, count |-> r.count, lpVtbl |-> vt1,
              heapFault |-> r.heapFault, obj |-> obj, ppv |-> q.ppv, hr |-> q.hr]

\* mutant: the aggregation test comes after the allocation
Factory_CreateInstance_LateOuterCheck(alloc, cnt, vt, fault, pUnkOuter, riid, ppv, obj) ==
    IF obj = NULL
    THEN [allocated |-> alloc, count |-> cnt, lpVtbl |-> vt, heapFault |-> fault,
          obj |-> NULL, ppv |-> ppv, hr |-> E_OUTOFMEMORY]
    ELSE IF pUnkOuter # NULL
    THEN [allocated |-> alloc \cup {obj}, count |-> cnt, lpVtbl |-> vt,
          heapFault |-> fault, obj |-> obj, ppv |-> ppv,
          hr |-> CLASS_E_NOAGGREGATION]
    ELSE LET vt1 == [vt EXCEPT ![obj] = CalculatorVtbl]
             cnt1 == [cnt EXCEPT ![obj] = 1]
             q == QueryInterface(cnt1, obj, riid, ppv)
             r == Release(alloc \cup {obj}, q.count, fault, obj)
         IN  [allocated |-> r.allocated, count |-> r.count, lpVtbl |-> vt1,
              heapFault |-> r.heapFault, obj |-> obj, ppv |-> q.ppv, hr |-> q.hr]

\* mutant: a failed query returns at once, without the factory's Release
Factory_CreateInstance_EarlyReturn(alloc, cnt, vt, fault, pUnkOuter, riid, ppv, obj) ==
    IF pUnkOuter # NULL
    THEN [allocated |-> alloc, count |-> cnt, lpVtbl |-> vt, heapFault |-> fault,
          obj |-> NULL, ppv |-> ppv, hr |-> CLASS_E_NOAGGREGATION]
    ELSE IF obj = NULL
    THEN [allocated |-> alloc, count |-> cnt, lpVtbl |-> vt, heapFault |-> fault,
          obj |-> NULL, ppv |-> ppv, hr |-> E_OUTOFMEMORY]
    ELSE LET vt1 == [vt EXCEPT ![obj] = CalculatorVtbl]
             cnt1 == [cnt EXCEPT ![obj] = 1]
             q == QueryInterface(cnt1, obj, riid, ppv)
             r == Release(alloc \cup {obj}, q.count, fault, obj)
         IN  IF q.hr # S_OK
             THEN [allocated |-> alloc \cup {obj}, count |-> q.count, lpVtbl |-> vt1,
                   heapFault |-> fault, obj |-> obj, ppv |-> q.ppv, hr |-> q.hr]
             ELSE [allocated |-> r.allocated, count |-> r.count, lpVtbl |-> vt1,
                   heapFault |-> r.heapFault, obj |-> obj, ppv |-> q.ppv, hr |-> q.hr]

Factory_CreateInstance(alloc, cnt, vt, fault, pUnkOuter, riid, ppv, obj) ==
    IF pUnkOuter # NULL
    THEN [allocated |-> alloc, count |-> cnt, lpVtbl |-> vt, heapFault |-> fault,
          obj |-> NULL, ppv |-> ppv, hr |-> CLASS_E_NOAGGREGATION]
    ELSE IF obj = NULL
    THEN [allocated |-> alloc, count |-> cnt, lpVtbl |-> vt, heapFault |-> fault,
          obj |-> NULL, ppv |-> ppv, hr |-> E_OUTOFMEMORY]
    ELSE LET vt1 == [vt EXCEPT ![obj] = CalculatorVtbl]
             cnt1 == [cnt EXCEPT ![obj] = 1]
             q == QueryInterface(cnt1, obj, riid, ppv)
             r == Release(alloc \cup {obj}, q.count, fault, obj)
         IN  [allocated |-> r.allocated, count |-> r.count, lpVtbl |-> vt1,
              heapFault |-> r.heapFault, obj |-> obj, ppv |-> q.ppv, hr |-> q.hr]

\* mutant: unlocking is refused
Factory_LockServer_NoUnlock(fLock) == IF fLock THEN S_OK ELSE "E_NOTIMPL"

Factory_LockServer(fLock) == S_OK

\* ---------------------------------------------------------------- exports
\* mutant: the class identifier is not examined
DllGetClassObject_AnyClass(rclsid, riid, ppv) ==
    Factory_QueryInterface(SimpleClassFactoryAddr, riid, ppv)

DllGetClassObject(rclsid, riid, ppv) ==
    IF IsEqualGUID(rclsid, CLSID_SimpleCalculator)
    THEN Factory_QueryInterface(SimpleClassFactoryAddr, riid, ppv)
    ELSE [ppv |-> ppv, hr |-> CLASS_E_CLASSNOTAVAILABLE]

DllCanUnloadNow == S_FALSE

\* ------------------------------------------------------------------- Init
Init ==
    /\ allocated = {}
    /\ count = [a \in Addr |-> 0]
    /\ lpVtbl = [a \in Addr |-> "NULL"]
    /\ SimpleClassFactory = [lpVtbl |-> ClassFactoryVtbl]
    /\ refs = [t \in Threads |-> [a \in Addr |-> 0]]
    /\ pc = [t \in Threads |-> Idle]
    /\ heapFault = FALSE
    /\ ev = NoEv

\* a thread may call a method of an instance only through a reference it holds
Holds(t, a) == pc[t].at = "idle" /\ refs[t][a] > 0 /\ lpVtbl[a] = CalculatorVtbl

\* ---------------------------------------------------------------- actions
\* t calls this->QueryInterface(riid, &p); the reference obtained goes to thread to
Call_QueryInterface(t, this, riid, ppv, to) ==
    /\ Holds(t, this)
    /\ LET q == QueryInterface(count, this, riid, ppv)
       IN  /\ q.ppv \in Addr => refs[to][q.ppv] = 0
           /\ count' = q.count
           /\ refs' = IF q.ppv \in Addr THEN [refs EXCEPT ![to][q.ppv] = @ + 1]
                      ELSE refs
           /\ ev' = [NoEv EXCEPT !.op = "QueryInterface", !.this = this,
                                 !.riid = riid, !.hr = q.hr, !.ppv = q.ppv]
    /\ UNCHANGED <<allocated, lpVtbl, SimpleClassFactory, pc, heapFault>>

\* t calls this->AddRef() and hands the new reference to thread to
Call_AddRef(t, this, to) ==
    /\ Holds(t, this)
    /\ refs[to][this] = 0
    /\ LET r == AddRef(count, this)
       IN  /\ count' = r.count
           /\ ev' = [NoEv EXCEPT !.op = "AddRef", !.this = this,
                                 !.ret = r.ret]
    /\ refs' = [refs EXCEPT ![to][this] = @ + 1]
    /\ UNCHANGED <<allocated, lpVtbl, SimpleClassFactory, pc, heapFault>>

\* first instruction of Release: the atomic decrement into the local `count`
Call_Release(t, this) ==
    /\ Holds(t, this)
    /\ count' = InterlockedDecrement(count, this)
    /\ refs' = [refs EXCEPT ![t][this] = @ - 1]
    /\ pc' = [pc EXCEPT ![t] = [at |-> "Release", this |-> this,
                                count |-> count'[this]]]
    /\ ev' = [NoEv EXCEPT !.op = "InterlockedDecrement", !.this = this,
                          !.ret = count'[this]]
    /\ UNCHANGED <<allocated, lpVtbl, SimpleClassFactory, heapFault>>

\* rest of Release: if (count == 0) free(this); return count
Release_Return(t) ==
    /\ pc[t].at = "Release"
    /\ LET f == IF ReleaseFrees(pc[t].count)
                THEN free(allocated, heapFault, pc[t].this)
                ELSE [allocated |-> allocated, heapFault |-> heapFault]
       IN  /\ allocated' = f.allocated
           /\ heapFault' = f.heapFault
    /\ pc' = [pc EXCEPT ![t] = Idle]
    /\ ev' = [NoEv EXCEPT !.op = "Release", !.this = pc[t].this,
                          !.ret = pc[t].count]
    /\ UNCHANGED <<count, lpVtbl, SimpleClassFactory, refs>>

Call_Factory_QueryInterface(riid, ppv) ==
    /\ \E t \in Threads : pc[t].at = "idle"
    /\ LET q == Factory_QueryInterface(SimpleClassFactoryAddr, riid, ppv)
       IN  ev' = [NoEv EXCEPT !.op = "Factory_QueryInterface",
                              !.this = SimpleClassFactoryAddr, !.riid = riid,
                              !.hr = q.hr, !.ppv = q.ppv]
    /\ UNCHANGED <<allocated, count, lpVtbl, SimpleClassFactory, refs, pc, heapFault>>

Call_Factory_AddRef ==
    /\ \E t \in Threads : pc[t].at = "idle"
    /\ ev' = [NoEv EXCEPT !.op = "Factory_AddRef",
                          !.this = SimpleClassFactoryAddr, !.ret = Factory_AddRef]
    /\ UNCHANGED <<allocated, count, lpVtbl, SimpleClassFactory, refs, pc, heapFault>>

Call_Factory_Release ==
    /\ \E t \in Threads : pc[t].at = "idle"
    /\ ev' = [NoEv EXCEPT !.op = "Factory_Release",
                          !.this = SimpleClassFactoryAddr, !.ret = Factory_Release]
    /\ UNCHANGED <<allocated, count, lpVtbl, SimpleClassFactory, refs, pc, heapFault>>

Call_Factory_CreateInstance(t, pUnkOuter, riid, ppv) ==
    /\ pc[t].at = "idle"
    /\ \E obj \in malloc(allocated) :
         LET c == Factory_CreateInstance(allocated, count, lpVtbl, heapFault,
                                         pUnkOuter, riid, ppv, obj)
         IN  /\ allocated' = c.allocated
             /\ count' = c.count
             /\ lpVtbl' = c.lpVtbl
             /\ heapFault' = c.heapFault
             /\ refs' = IF c.ppv \in Addr /\ c.hr = S_OK
                        THEN [refs EXCEPT ![t][c.ppv] = @ + 1]
                        ELSE refs
             /\ ev' = [NoEv EXCEPT !.op = "Factory_CreateInstance",
                                   !.this = SimpleClassFactoryAddr,
                                   !.pUnkOuter = pUnkOuter, !.riid = riid,
                                   !.obj = c.obj, !.hr = c.hr, !.ppv = c.ppv]
    /\ UNCHANGED <<SimpleClassFactory, pc>>

Call_Factory_LockServer(fLock) ==
    /\ \E t \in Threads : pc[t].at = "idle"
    /\ ev' = [NoEv EXCEPT !.op = "Factory_LockServer",
                          !.this = SimpleClassFactoryAddr,
                          !.hr = Factory_LockServer(fLock)]
    /\ UNCHANGED <<allocated, count, lpVtbl, SimpleClassFactory, refs, pc, heapFault>>

Call_DllGetClassObject(rclsid, riid, ppv) ==
    /\ \E t \in Threads : pc[t].at = "idle"
    /\ LET g == DllGetClassObject(rclsid, riid, ppv)
       IN  ev' = [NoEv EXCEPT !.op = "DllGetClassObject",
                              !.rclsid = rclsid, !.riid = riid,
                              !.hr = g.hr, !.ppv = g.ppv]
    /\ UNCHANGED <<allocated, count, lpVtbl, SimpleClassFactory, refs, pc, heapFault>>

Call_DllCanUnloadNow ==
    /\ \E t \in Threads : pc[t].at = "idle"
    /\ ev' = [NoEv EXCEPT !.op = "DllCanUnloadNow", !.hr = DllCanUnloadNow]
    /\ UNCHANGED <<allocated, count, lpVtbl, SimpleClassFactory, refs, pc, heapFault>>

Next ==
    \/ \E t \in Threads, this \in Addr, riid \in IIDs, ppv \in PpvIn, to \in Threads :
           Call_QueryInterface(t, this, riid, ppv, to)
    \/ \E t \in Threads, this \in Addr, to \in Threads : Call_AddRef(t, this, to)
    \/ \E t \in Threads, this \in Addr : Call_Release(t, this)
    \/ \E t \in Threads : Release_Return(t)
    \/ \E riid \in IIDs, ppv \in PpvIn : Call_Factory_QueryInterface(riid, ppv)
    \/ Call_Factory_AddRef
    \/ Call_Factory_Release
    \/ \E t \in Threads, pUnkOuter \in Outer, riid \in IIDs, ppv \in PpvIn :
           Call_Factory_CreateInstance(t, pUnkOuter, riid, ppv)
    \/ \E fLock \in BOOLEAN : Call_Factory_LockServer(fLock)
    \/ \E rclsid \in CLSIDs, riid \in IIDs, ppv \in PpvIn :
           Call_DllGetClassObject(rclsid, riid, ppv)
    \/ Call_DllCanUnloadNow

Spec == Init /\ [][Next]_vars

\* ------------------------------------------------------------ properties
CalculatorIIDs == {IID_IUnknown, IID_ICalculator}
FactoryIIDs == {IID_IUnknown, IID_IClassFactory}

\* references to a handed out and not yet released
Outstanding(a) ==
    LET RECURSIVE Sum(_)
        Sum(n) == IF n = 0 THEN 0 ELSE refs[n][a] + Sum(n - 1)
    IN  Sum(NumThreads)

\* threads that decremented a's count to zero and have not yet freed it
Freeing(a) == {t \in Threads : pc[t].at = "Release" /\ pc[t].this = a /\ pc[t].count = 0}

CreateSucceeds(e) ==
    /\ e.op = "Factory_CreateInstance"
    /\ e.pUnkOuter = NULL
    /\ e.obj # NULL
    /\ e.riid \in CalculatorIIDs

\* C1: after a successful Factory_CreateInstance (null outer, allocation
\* succeeded, base or calculator identifier) the output parameter holds the
\* new instance, the instance is allocated, its count is exactly 1 and the
\* caller holds the only reference.
C1_CreateInstanceHandsOverSoleReference ==
    CreateSucceeds(ev) =>
        /\ ev.hr = S_OK
        /\ ev.ppv = ev.obj
        /\ ev.obj \in allocated
        /\ lpVtbl[ev.obj] = CalculatorVtbl
        /\ count[ev.obj] = 1
        /\ Outstanding(ev.obj) = 1

C1_Witness ==
    /\ ev.op = "Factory_CreateInstance"
    /\ ev.hr = S_OK
    /\ ev.riid = IID_ICalculator
    /\ ev.ppv \in allocated
    /\ count[ev.ppv] = 1

\* C2: an instance's memory is reclaimed exactly when a Release brings its
\* count to zero and never while the count is positive: memory leaves the
\* heap only in the Release whose decrement produced zero, a zero count on
\* allocated memory means that Release is about to free it, Release returns
\* the count its decrement produced, and the single Release of a freshly
\* created instance produces zero and reclaims it.
C2_StateInv ==
    \A a \in Addr :
        /\ count[a] > 0 => a \in allocated
        /\ (a \in allocated /\ count[a] = 0) => Freeing(a) # {}

C2_Step ==
    /\ \A a \in Addr :
          (a \in allocated /\ a \notin allocated') =>
              /\ ev'.op = "Release" /\ ev'.this = a /\ ev'.ret = 0
              /\ count[a] = 0 /\ count'[a] = 0
    /\ ev'.op = "InterlockedDecrement" =>
          /\ count'[ev'.this] = count[ev'.this] - 1
          /\ ev'.ret = count'[ev'.this]
          /\ \E t \in Threads : pc'[t] = [at |-> "Release", this |-> ev'.this,
                                          count |-> ev'.ret]
    /\ ev'.op = "Release" =>
          /\ \E t \in Threads : /\ pc[t].at = "Release" /\ pc'[t].at = "idle"
                                /\ pc[t].this = ev'.this /\ ev'.ret = pc[t].count
          /\ ev'.ret = 0 <=> (ev'.this \in allocated /\ ev'.this \notin allocated')
          /\ ev'.ret # 0 => allocated' = allocated
    /\ (CreateSucceeds(ev) /\ ev'.op = "InterlockedDecrement" /\ ev'.this = ev.ppv) =>
          ev'.ret = 0

C2_ReclaimedExactlyAtZero == [](C2_StateInv) /\ [][C2_Step]_vars

C2_Witness ==
    /\ ev.op = "Release"
    /\ ev.ret = 0
    /\ ev.this \notin allocated
    /\ count[ev.this] = 0

\* C3: for every interleaving of AddRef and Release by threads holding
\* references to the same instance no increment or decrement is lost (the
\* count equals the references handed out minus those released), at most
\* one thread, the one whose decrement produced zero, frees the instance,
\* nothing is freed twice and no unreferenced instance stays allocated.
C3_AtomicCountTransitions ==
    /\ ~heapFault
    /\ \A a \in Addr :
          /\ a \in allocated => count[a] = Outstanding(a)
          /\ Cardinality(Freeing(a)) <= 1
          /\ Freeing(a) # {} => (a \in allocated /\ count[a] = 0)
          /\ (a \in allocated /\ Outstanding(a) = 0) => Cardinality(Freeing(a)) = 1
          /\ a \notin allocated => Outstanding(a) = 0

C3_Witness ==
    \E a \in Addr, t, u \in Threads :
        /\ t # u
        /\ pc[t] = [at |-> "Release", this |-> a, count |-> 1]
        /\ pc[u] = [at |-> "Release", this |-> a, count |-> 0]

\* C4: QueryInterface on a live instance for the base or the calculator
\* identifier returns S_OK, writes that same non-null instance to the output
\* parameter and raises the instance's count by exactly 1.
C4_Step ==
    (ev'.op = "QueryInterface" /\ ev'.riid \in CalculatorIIDs) =>
        /\ ev'.hr = S_OK
        /\ ev'.ppv = ev'.this
        /\ ev'.ppv # NULL
        /\ ev'.this \in allocated /\ ev'.this \in allocated'
        /\ count'[ev'.this] = count[ev'.this] + 1
        /\ \A a \in Addr \ {ev'.this} : count'[a] = count[a]

C4_SupportedQueryAddsOneReference == [][C4_Step]_vars

C4_Witness ==
    /\ ev.op = "QueryInterface"
    /\ ev.riid = IID_ICalculator
    /\ ev.hr = S_OK
    /\ ev.ppv = ev.this
    /\ count[ev.this] = 2

\* C5: QueryInterface on a live instance for any other identifier writes
\* NULL to the output parameter, returns E_NOINTERFACE and leaves the count
\* and the allocation state unchanged.
C5_Step ==
    (ev'.op = "QueryInterface" /\ ev'.riid \notin CalculatorIIDs) =>
        /\ ev'.ppv = NULL
        /\ ev'.hr = E_NOINTERFACE
        /\ ev'.this \in allocated
        /\ count' = count
        /\ allocated' = allocated
        /\ refs' = refs

C5_UnsupportedQueryChangesNothing == [][C5_Step]_vars

C5_Witness ==
    /\ ev.op = "QueryInterface"
    /\ ev.riid = IID_Other
    /\ ev.hr = E_NOINTERFACE
    /\ ev.ppv = NULL
    /\ count[ev.this] = 1

\* C6: Factory_CreateInstance with a non-null outer aggregate returns
\* CLASS_E_NOAGGREGATION whatever the identifier and allocates nothing: the
\* heap is the same before and after the call.
C6_Step ==
    (ev'.op = "Factory_CreateInstance" /\ ev'.pUnkOuter # NULL) =>
        /\ ev'.hr = CLASS_E_NOAGGREGATION
        /\ ev'.obj = NULL
        /\ allocated' = allocated
        /\ count' = count
        /\ lpVtbl' = lpVtbl

C6_AggregationRefusedWithoutAllocation == [][C6_Step]_vars

C6_Witness ==
    /\ ev.op = "Factory_CreateInstance"
    /\ ev.pUnkOuter # NULL
    /\ ev.riid = IID_ICalculator
    /\ ev.hr = CLASS_E_NOAGGREGATION
    /\ allocated = {}

\* C7: DllGetClassObject allocates nothing; for a class identifier other
\* than CLSID_SimpleCalculator it returns CLASS_E_CLASSNOTAVAILABLE, and for
\* CLSID_SimpleCalculator its status and output are those of
\* Factory_QueryInterface on the static factory with the requested identifier.
C7_Step ==
    ev'.op = "DllGetClassObject" =>
        /\ allocated' = allocated
        /\ count' = count
        /\ IF ev'.rclsid = CLSID_SimpleCalculator
           THEN LET q == Factory_QueryInterface(SimpleClassFactoryAddr, ev'.riid, NULL)
                IN  /\ ev'.hr = q.hr
                    /\ ev'.ppv = q.ppv
                    /\ ev'.riid \in FactoryIIDs => ev'.ppv = SimpleClassFactoryAddr
           ELSE ev'.hr = CLASS_E_CLASSNOTAVAILABLE

C7_GetClassObjectDelegatesOrRefuses == [][C7_Step]_vars

C7_Witness ==
    /\ ev.op = "DllGetClassObject"
    /\ ev.rclsid = CLSID_SimpleCalculator
    /\ ev.riid = IID_IClassFactory
    /\ ev.hr = S_OK
    /\ ev.ppv = SimpleClassFactoryAddr

\* the three error conditions of the claim, as the call just made met them
Succeeded(hr) == hr \in {S_OK, S_FALSE}

UnsupportedQuery(e) ==
    \/ e.op = "QueryInterface" /\ e.riid \notin CalculatorIIDs
    \/ e.op = "Factory_QueryInterface" /\ e.riid \notin FactoryIIDs
    \/ /\ e.op = "DllGetClassObject"
       /\ e.rclsid = CLSID_SimpleCalculator
       /\ e.riid \notin FactoryIIDs
    \/ /\ e.op = "Factory_CreateInstance"
       /\ e.pUnkOuter = NULL
       /\ e.obj # NULL
       /\ e.riid \notin CalculatorIIDs

AttemptedAggregation(e) == e.op = "Factory_CreateInstance" /\ e.pUnkOuter # NULL

AllocationFailure(e) ==
    e.op = "Factory_CreateInstance" /\ e.pUnkOuter = NULL /\ e.obj = NULL

UnknownClass(e) == e.op = "DllGetClassObject" /\ e.rclsid # CLSID_SimpleCalculator

ReturnsStatus(e) == e.hr # NoHr

\* C8 as stated: every call that meets none of the three error conditions
\* (unsupported capability query, attempted aggregation, allocation failure)
\* reports success.
C8_ThreeErrorConditions ==
    (ReturnsStatus(ev) /\ ~UnsupportedQuery(ev) /\ ~AttemptedAggregation(ev)
        /\ ~AllocationFailure(ev)) => Succeeded(ev.hr)

\* C8 amended: there are four error conditions, each with its own status:
\* attempted aggregation, allocation failure, unsupported capability query
\* and unknown class identifier; a call reports a failure status exactly
\* when it meets one of them, and every other call reports success (S_OK,
\* or S_FALSE from DllCanUnloadNow).
C8_FourErrorConditions ==
    ReturnsStatus(ev) =>
        /\ AttemptedAggregation(ev) <=> ev.hr = CLASS_E_NOAGGREGATION
        /\ AllocationFailure(ev) <=> ev.hr = E_OUTOFMEMORY
        /\ UnsupportedQuery(ev) <=> ev.hr = E_NOINTERFACE
        /\ UnknownClass(ev) <=> ev.hr = CLASS_E_CLASSNOTAVAILABLE
        /\ ev.hr = S_FALSE <=> ev.op = "DllCanUnloadNow"
        /\ Succeeded(ev.hr) <=> ~(\/ AttemptedAggregation(ev) \/ AllocationFailure(ev)
                                  \/ UnsupportedQuery(ev) \/ UnknownClass(ev))

C8_Witness ==
    /\ ev.op = "DllGetClassObject"
    /\ ev.rclsid = CLSID_Other
    /\ ev.riid = IID_IClassFactory
    /\ ev.hr = CLASS_E_CLASSNOTAVAILABLE

FactoryOps == {"Factory_QueryInterface", "Factory_AddRef", "Factory_Release",
               "Factory_CreateInstance", "Factory_LockServer"}

\* C9: the class factory is one static object that no call creates, destroys
\* or changes: it keeps its dispatch table, and Factory_AddRef and
\* Factory_Release report 2 and 1 however often they are called.
C9_Step ==
    /\ ev'.op \in FactoryOps =>
          /\ SimpleClassFactory' = SimpleClassFactory
          /\ ev'.this = SimpleClassFactoryAddr
          /\ SimpleClassFactoryAddr \notin Addr
    /\ ev'.op = "Factory_AddRef" => (ev'.ret = 2 /\ allocated' = allocated)
    /\ ev'.op = "Factory_Release" => (ev'.ret = 1 /\ allocated' = allocated)
    /\ (ev'.op = "Factory_QueryInterface" /\ ev'.hr = S_OK) =>
          ev'.ppv = SimpleClassFactoryAddr

C9_FactoryIsStatic ==
    [](SimpleClassFactory = [lpVtbl |-> ClassFactoryVtbl]) /\ [][C9_Step]_vars

C9_Witness ==
    /\ ev.op = "Factory_Release"
    /\ ev.ret = 1
    /\ allocated # {}
    /\ SimpleClassFactory.lpVtbl = ClassFactoryVtbl

\* C10: Factory_CreateInstance with a null outer aggregate and an unsupported
\* identifier does not leak: the instance it allocated is reclaimed before it
\* returns (count 1 after the failed query, 0 after the factory's Release),
\* the output parameter is NULL, the status is E_NOINTERFACE and the heap is
\* the same after the call as before it.
C10_Step ==
    (/\ ev'.op = "Factory_CreateInstance"
     /\ ev'.pUnkOuter = NULL
     /\ ev'.obj # NULL
     /\ ev'.riid \notin CalculatorIIDs) =>
        /\ ev'.hr = E_NOINTERFACE
        /\ ev'.ppv = NULL
        /\ ev'.obj \notin allocated
        /\ ev'.obj \notin allocated'
        /\ allocated' = allocated
        /\ count'[ev'.obj] = 0
        /\ refs' = refs
        /\ heapFault' = heapFault

C10_FailedCreateDoesNotLeak == [][C10_Step]_vars

C10_Witness ==
    /\ ev.op = "Factory_CreateInstance"
    /\ ev.pUnkOuter = NULL
    /\ ev.obj # NULL
    /\ ev.riid = IID_IClassFactory
    /\ ev.hr = E_NOINTERFACE
    /\ ev.ppv = NULL
    /\ ev.obj \notin allocated
====
